---- MODULE Spec2Model ----
(***************************************************************************)
(* Actor core of the stock-trading CLI: the cycle driver (logic.rs), the   *)
(* per-chunk fetch and statistics actors, the writer actor, the collection *)
(* actor with its tail buffer (my_async_actors.rs) and the web handler     *)
(* get_tail (handlers.rs).                                                 *)
(*                                                                         *)
(* A symbol is its index 1..nSymbols in the symbol list.  A row is         *)
(* [symbol, data]: data names the tick whose fetched series the indicators *)
(* were computed from.  A rows message is [from, rows, start]: start is    *)
(* the Instant taken by the driver at the tick, so it names the tick.      *)
(***************************************************************************)
EXTENDS Integers, Sequences, FiniteSets

\* ------------------------------------------------------------ constants

CHUNK_SIZE == 5

ACTOR_CHANNEL_CAPACITY == 1

TAIL_BUFFER_SIZE == 10

\* The chunk count the collection actor compares its counter with.
CNT_PER_BATCH == 2

WINDOW_SIZE == 30

\* ------------------------------------------------------------ bounds

\* Largest symbol universe explored.
MaxSymbols == 11

\* Chunk pipelines the driver dispatches over a run of the pipeline specification.
MaxDispatched == 3

\* Symbols whose fetch yields no data, over a whole run.
MaxFails == 1

\* Chunk messages the producers send in the collector specification.
MaxChunkMsgs == 22

\* Concurrent callers of the web handler.
MaxRequesters == 2

\* Symbols whose fetch yields no data, over a run of the single-tick specification.
MaxChunkFails == 5

\* Chunk messages sent to the collector over a run of the get_tail specification.
MaxTailChunks == 5

\* Longest price series handed to the indicators.
MaxLen == 3

\* Largest window size of WindowedSMA.
MaxWindow == 4

\* Largest price of a series; the prices are the integers -MaxAbsPrice..MaxAbsPrice.
MaxAbsPrice == 2

VARIABLES
    nSymbols,       \* size of the symbol universe (args.symbols)
    driver,         \* main_loop: "init" before WriterActorHandle::new(), then "loop",
                    \* "stopped" once the ctrl_c arm has broken out of the loop
    sigint,         \* the shutdown signal: "none", "pending" once delivered to the
                    \* process, "observed" once the driver's ctrl_c() arm has run
    main,           \* main: "serving" inside axum::serve, "exited" once main has returned
    tick,           \* ticks dispatched so far by main_loop
    stage,          \* per chunk pipeline <<t, c>>: where it stands
    closes,         \* per chunk pipeline: the symbols fetched with a non-empty series,
                    \* in the iteration order of the symbols_closes map
    fetchFailed,    \* per chunk pipeline: the symbols whose fetch gave an empty series
    fails,          \* symbols that yielded no data so far
    writerActors,   \* WriterActor instances created by WriterActorHandle::new()
    fileCreates,    \* File::create calls on the output file
    writerStarted,  \* WriterActor::start has created the file
    writerDead,     \* the writer's task has ended: its receiver is dropped
    writerStops,    \* calls of WriterActor::stop (the final flush)
    writerMailbox,  \* the writer's mpsc channel
    writerEnq,      \* history: ids of the rows messages accepted by the writer's mailbox
    writerHandled,  \* number of rows messages the writer has handled
    file,           \* lines of the output file
    collMailbox,    \* the collection actor's mpsc channel
    collDead,       \* the collection actor's task has ended: its receiver is dropped
    buffer,         \* CollectionActor.buffer
    batch,          \* CollectionActor.batch
    cnt,            \* CollectionActor.cnt
    reqPc,          \* per get_tail caller: "idle", "waiting" or "gone"
    reply,          \* per get_tail caller: the reply channel of its request
    envSent,        \* chunk messages sent by the producers of the collector specification
    series,         \* the price series handed to an indicator
    window_size,    \* WindowedSMA.window_size
    signal          \* the indicator last calculated and what calculate returned

vars == <<nSymbols, driver, sigint, main, tick, stage, closes, fetchFailed, fails,
          writerActors, fileCreates, writerStarted, writerDead, writerStops,
          writerMailbox, writerEnq, writerHandled, file, collMailbox, collDead,
          buffer, batch, cnt, reqPc, reply, envSent, series, window_size, signal>>

procVars == <<sigint, main>>
sigVars == <<series, window_size, signal>>

pipeVars == <<tick, stage, closes, fetchFailed, fails>>
writerVars == <<writerActors, fileCreates, writerStarted, writerDead, writerStops,
                writerMailbox, writerEnq, writerHandled, file>>
collVars == <<collDead, buffer, batch, cnt>>
reqVars == <<reqPc, reply>>

\* ------------------------------------------------------------ helpers

Range(s) == {s[i] : i \in 1..Len(s)}

Min(a, b) == IF a < b THEN a ELSE b

RECURSIVE Concat(_)
Concat(ss) == IF ss = <<>> THEN <<>> ELSE Head(ss) \o Concat(Tail(ss))

\* symbols.chunks(CHUNK_SIZE).collect(): the number of chunks of n symbols.
NumChunks(n) == (n + CHUNK_SIZE - 1) \div CHUNK_SIZE

\* Overlapping windows of the symbol list instead of chunks.
ChunkSymbols_Windows(n, c) ==
    [i \in 1..Min(CHUNK_SIZE, n - c + 1) |-> c - 1 + i]

\* The symbols of chunk c (1-based) of n symbols, in list order.
ChunkSymbols(n, c) ==
    [i \in 1..(Min(c * CHUNK_SIZE, n) - (c - 1) * CHUNK_SIZE) |-> (c - 1) * CHUNK_SIZE + i]

CSV_HEADER == "period start,symbol,price,change %,min,max,30d avg"

FromLabel == "from"

Row(s, t) == [symbol |-> s, data |-> t]

Reverse(s) == [i \in 1..Len(s) |-> s[Len(s) + 1 - i]]

\* Every symbol of syms, failed or not.
Succeeded_All(syms, failed) == syms

\* The symbols of syms that are not in failed, in the order of syms.
Succeeded(syms, failed) ==
    LET F[i \in 0..Len(syms)] ==
            IF i = 0 THEN <<>>
            ELSE IF syms[i] \in failed THEN F[i - 1] ELSE Append(F[i - 1], syms[i])
    IN  F[Len(syms)]

\* handle_symbols_closes_msg: one row per symbol with a non-empty series, in the
\* map's iteration order; cl lists those symbols in that order.
RowsOf(t, cl) == [i \in 1..Len(cl) |-> Row(cl[i], t)]

\* PerformanceIndicatorsRowsMsg { from, rows, start } of tick t.
RowsMsg(t, cl) == [from |-> FromLabel, rows |-> RowsOf(t, cl), start |-> t]

\* One line of the output file: "{from},{symbol},${:.2},..." of a row.
Line(from, row) == <<from, row.symbol, row.data>>

LinesOf(msg) == [i \in 1..Len(msg.rows) |-> Line(msg.from, msg.rows[i])]

\* The file truncated to its header before the lines are written.
AppendLines_Truncating(f, lines) == <<CSV_HEADER>> \o lines

\* WriterActor::handle: writeln! appends each line to the file.
AppendLines(f, lines) == f \o lines

\* A send that waits for room even when the channel is closed.
SendReady_OpenOnly(mailbox, closed) == ~closed /\ Len(mailbox) < ACTOR_CHANNEL_CAPACITY

\* A send that never waits for room.
SendReady_Unbounded(mailbox, closed) == TRUE

\* mpsc::Sender::send(msg).await behind the handles' send: it completes once the
\* channel is closed or has room for the message.
SendReady(mailbox, closed) == closed \/ Len(mailbox) < ACTOR_CHANNEL_CAPACITY

\* A send that puts the message into the channel whether or not it is closed.
send_Delivering(mailbox, closed, msg) ==
    [ok |-> ~closed, mailbox |-> Append(mailbox, msg)]

\* The outcome of that send: Err(SendError(msg)) and nothing enqueued when the
\* receiver is dropped, Ok(()) and the message at the back of the channel otherwise.
send(mailbox, closed, msg) ==
    IF closed
    THEN [ok |-> FALSE, mailbox |-> mailbox]
    ELSE [ok |-> TRUE, mailbox |-> Append(mailbox, msg)]

\* A statistics actor that goes on to the collector whatever the send to the
\* writer returned.
AfterWriterSend_Ignoring(ok) == "toColl"

\* handle_symbols_closes_msg: writer_handle.send(..).await.expect(..) stands before
\* the send to the collector, which is reached only when it returned Ok; on Err the
\* task panics.
AfterWriterSend(ok) == IF ok THEN "toColl" ELSE "panicked"

\* A statistics actor that is not finished by its send to the collector and comes
\* back to it.
AfterCollectorSend_Again(ok) == "toColl"

\* handle_symbols_closes_msg: collection_handle.send(..).await.expect(..) is its
\* last statement; on Ok it returns, the actor's recv gives None (its only handle
\* was dropped after the one send) and run ends; on Err the task panics.
AfterCollectorSend(ok) == IF ok THEN "done" ELSE "panicked"

\* A writer that goes on to the next message whatever handle returned.
RunContinues_Ignoring(handled_ok) == TRUE

\* WriterActor::run: `self.handle(msg).await?` goes on to the next recv only when
\* handle returned Ok.
RunContinues(handled_ok) == handled_ok

\* A driver that comes back to the creation of the writer handle.
AfterNewWriterHandle_Again == "init"

\* main_loop: WriterActorHandle::new() stands before the loop; the driver is in
\* the loop afterwards.
AfterNewWriterHandle == "loop"

\* A writer that takes messages before start has run.
WriterReceives_Unstarted(started, dead) == ~dead

\* WriterActor::start calls run, and with it the first recv, after the header is
\* written; a task that has ended receives nothing.
WriterReceives(started, dead) == started /\ ~dead

\* A driver that stays in its loop after the ctrl_c() arm.
AfterCtrlC_Looping == "loop"

\* main_loop, the ctrl_c() arm: `break Ok(())` leaves the loop and main_loop.
AfterCtrlC == "stopped"

\* A tick arm that also waits for the pipelines it has started.
AwaitedByDriver_Pipelines == {"fetch", "proc", "toColl"}

\* The pipeline stages the tick arm waits for before it returns to select!:
\* join_all(queries) joins the sends to the fresh fetch actors only, which are part
\* of the dispatch, so none.
AwaitedByDriver == {}

\* Only the driver's handle counted.
WriterHandles_DriverOnly(d, st) == IF d = "loop" THEN 1 ELSE 0

\* The live clones of the writer handle: the one main_loop holds from
\* WriterActorHandle::new() until it returns, and the clone in each
\* QuoteRequestsMsg, which passes into the SymbolsClosesMsg and is dropped when
\* handle_symbols_closes_msg returns or panics.
WriterHandles(d, st) ==
    (IF d = "loop" THEN 1 ELSE 0)
        + Cardinality({id \in DOMAIN st : st[id] \in {"fetch", "proc", "toColl"}})

\* mpsc::Receiver::recv gives None once the channel is empty and every sender is
\* dropped.
RecvNone(mailbox, handles) == mailbox = <<>> /\ handles = 0

\* A recv that completes for a message only.
RecvReturns_MessageOnly(chan, dropped) == chan # <<>>

\* mpsc::Receiver::recv().await completes when the channel holds a message, or
\* when every sender is dropped (with None if it is empty then).
RecvReturns(chan, dropped) == chan # <<>> \/ dropped

\* get_tail after receiver.recv().await: status OK in both arms, with the tail
\* received or, on None, the empty tail.
get_tail_response(chan) ==
    IF chan # <<>>
    THEN [status |-> "OK", tail |-> Head(chan)]
    ELSE [status |-> "OK", tail |-> <<>>]

\* ------------------------------------------------------------ indicators

\* Option<T>
None == [some |-> FALSE]

Some(v) == [some |-> TRUE, val |-> v]

\* f64::MAX and f64::MIN: the ends of the price domain.
F64_MAX == MaxAbsPrice

F64_MIN == 0 - MaxAbsPrice

Prices == F64_MIN..F64_MAX

\* f64::min and f64::max
f64_min(a, b) == IF a < b THEN a ELSE b

f64_max(a, b) == IF a > b THEN a ELSE b

\* A quotient a / b of two f64 kept as the pair it was formed from; b = 0 stands
\* for the infinities and NaN that a division by zero gives.
Div(a, b) == [num |-> a, den |-> b]

\* series.iter().fold(init, |min_elt, curr_elt| min_elt.min(*curr_elt))
RECURSIVE fold_min(_, _)
fold_min(s, init) == IF s = <<>> THEN init ELSE fold_min(Tail(s), f64_min(init, Head(s)))

\* series.iter().fold(init, |max_elt, curr_elt| max_elt.max(*curr_elt))
RECURSIVE fold_max(_, _)
fold_max(s, init) == IF s = <<>> THEN init ELSE fold_max(Tail(s), f64_max(init, Head(s)))

\* A fold that starts at zero.
MinPrice_calculate_FromZero(s) ==
    IF s = <<>> THEN None ELSE Some(fold_min(s, 0))

\* MinPrice::calculate
MinPrice_calculate(s) ==
    IF s = <<>> THEN None ELSE Some(fold_min(s, F64_MAX))

\* MaxPrice::calculate
MaxPrice_calculate(s) ==
    IF s = <<>> THEN None ELSE Some(fold_max(s, F64_MIN))

\* A relative difference that divides by the first element whatever it is.
PriceDifference_calculate_Unguarded(s) ==
    IF s = <<>> THEN None
    ELSE Some(<<s[Len(s)] - s[1], Div(s[Len(s)] - s[1], s[1])>>)

\* PriceDifference::calculate
PriceDifference_calculate(s) ==
    IF s = <<>> THEN None
    ELSE LET first == s[1]
             last == s[Len(s)]
             abs_diff == last - first
             first1 == IF first = 0 THEN 1 ELSE first
             rel_diff == Div(abs_diff, first1)
         IN  Some(<<abs_diff, rel_diff>>)

\* window.iter().sum::<f64>()
RECURSIVE sum(_)
sum(s) == IF s = <<>> THEN 0 ELSE Head(s) + sum(Tail(s))

\* slice::windows(w), w > 0: the overlapping windows of length w, none when the
\* slice is shorter than w.
windows(s, w) ==
    [i \in 1..(IF Len(s) < w THEN 0 ELSE Len(s) - w + 1) |-> SubSeq(s, i, i + w - 1)]

\* A moving average that gives None for a series shorter than its window.
WindowedSMA_calculate_NoneWhenShort(w, s) ==
    IF Len(s) >= w /\ w > 1
    THEN Some([i \in 1..Len(windows(s, w)) |->
                  Div(sum(windows(s, w)[i]), Len(windows(s, w)[i]))])
    ELSE None

\* WindowedSMA::calculate with self.window_size = w
WindowedSMA_calculate(w, s) ==
    IF s # <<>> /\ w > 1
    THEN Some([i \in 1..Len(windows(s, w)) |->
                  Div(sum(windows(s, w)[i]), Len(windows(s, w)[i]))])
    ELSE None

\* Option::unwrap_or
unwrap_or(opt, default) == IF opt.some THEN opt.val ELSE default

\* handle_symbols_closes_msg: the sma field of the row of a non-empty series, the
\* last element of the windowed averages, or the number 0.0 when calculate gave
\* None or an empty list.
RowSma(closes_) ==
    LET sma == unwrap_or(WindowedSMA_calculate(WINDOW_SIZE, closes_), <<>>)
    IN  IF sma = <<>> THEN Div(0, 1) ELSE sma[Len(sma)]

\* The series of at most MaxLen prices.
SeriesSet == UNION {[1..n -> Prices] : n \in 0..MaxLen}

\* A push that shares the batch with the ring instead of copying it: every entry
\* pushed from the batch shows what the batch holds now.
handle_perf_ind_chunk_Sharing(st, rows) ==
    LET cnt1 == st.cnt + 1
        batch1 == st.batch \o rows
        shared == [i \in 1..Len(st.buffer) |-> batch1]
    IN  IF cnt1 = CNT_PER_BATCH
        THEN [buffer |-> Append(shared, batch1), batch |-> batch1, cnt |-> 0]
        ELSE [buffer |-> shared, batch |-> batch1, cnt |-> cnt1]

\* CollectionActor::handle_perf_ind_chunk on the state st = [buffer, batch, cnt].
handle_perf_ind_chunk(st, rows) ==
    LET cnt1 == st.cnt + 1
        batch1 == st.batch \o rows
    IN  IF cnt1 = CNT_PER_BATCH
        THEN [buffer |-> Append(st.buffer, batch1), batch |-> batch1, cnt |-> 0]
        ELSE [buffer |-> st.buffer, batch |-> batch1, cnt |-> cnt1]

\* CollectionActor::handle_tail_request: buffer.iter().take(n).cloned().collect()
handle_tail_request(buf, n) == SubSeq(buf, 1, Min(n, Len(buf)))

\* get_tail: n.clamp(0, TAIL_BUFFER_SIZE)
ClampN(n) == Min(n, TAIL_BUFFER_SIZE)

\* Requested counts tried by the callers: below, at and above the capacity.
RequestSizes == {0, 1, TAIL_BUFFER_SIZE, TAIL_BUFFER_SIZE + 1}

\* main_loop: args.symbols.split(',') gives one entry more than the string has
\* commas, so the empty string gives one symbol, the empty one.
SymbolCount(commas) == commas + 1

\* The universe sizes explored: those at the chunk boundaries.
SymbolCounts == {n \in 1..MaxSymbols : n % CHUNK_SIZE \in {0, 1}}

\* Ticks that a run of the pipeline specification can dispatch for n symbols.
MaxTicks(n) == MaxDispatched \div NumChunks(n)

Requesters == 1..MaxRequesters

\* The caller that the pipeline specifications follow.
PipelineRequesters == {r \in Requesters : r = 1}

\* The callers of get_tail other than the one the pipeline specifications follow.
OtherCallers == Requesters \ PipelineRequesters

ChunkIds(n) == (1..MaxTicks(n)) \X (1..NumChunks(n))

\* The pipelines with a live per-chunk actor: the fetch actor until it has handled
\* its QuoteRequestsMsg, then the statistics actor until it has handled its
\* SymbolsClosesMsg.
LivePerChunkActors(st) == {id \in DOMAIN st : st[id] \in {"fetch", "proc", "toColl"}}

\* ------------------------------------------------------------ initial state

\* The state at the entry of main_loop: no writer actor exists yet, the single
\* collection actor (the one whose handle the web state and every QuoteRequestsMsg
\* carry) has an empty buffer and batch and cnt = 0, and no tick has been dispatched.
InitActors ==
    \E n \in SymbolCounts :
        /\ nSymbols = n
        /\ driver = "init"
        /\ sigint = "none"
        /\ main = "serving"
        /\ tick = 0
        /\ stage = [id \in ChunkIds(n) |-> "idle"]
        /\ closes = [id \in ChunkIds(n) |-> <<>>]
        /\ fetchFailed = [id \in ChunkIds(n) |-> {}]
        /\ fails = 0
        /\ writerActors = 0
        /\ fileCreates = 0
        /\ writerStarted = FALSE
        /\ writerDead = FALSE
        /\ writerStops = 0
        /\ writerMailbox = <<>>
        /\ writerEnq = <<>>
        /\ writerHandled = 0
        /\ file = <<>>
        /\ collMailbox = <<>>
        /\ collDead = FALSE
        /\ buffer = <<>>
        /\ batch = <<>>
        /\ cnt = 0
        /\ reqPc = [r \in Requesters |-> [pc |-> "idle", n |-> 0]]
        /\ reply = [r \in Requesters |-> <<>>]
        /\ envSent = 0

\* ... and no indicator is being calculated.
Init ==
    /\ InitActors
    /\ series = <<>>
    /\ window_size = 0
    /\ signal = [kind |-> "none"]

\* ------------------------------------------------------------ cycle driver

\* main_loop before the loop: WriterActorHandle::new() creates the writer's channel
\* and its actor and spawns actor.start().
NewWriterHandle ==
    /\ driver = "init"
    /\ writerActors' = writerActors + 1
    /\ driver' = AfterNewWriterHandle
    /\ UNCHANGED <<nSymbols, pipeVars, fileCreates, writerStarted, writerDead,
                   writerStops, writerMailbox, writerEnq, writerHandled, file,
                   collMailbox, collVars, reqVars, envSent, procVars, sigVars>>

\* main_loop, the interval.tick() arm, while fewer than maxT ticks were dispatched:
\* one fresh fetch actor per chunk, each handed its QuoteRequestsMsg (a fresh
\* mailbox never blocks the send); join_all waits for the sends only.
Dispatch(maxT) ==
    /\ driver = "loop"
    /\ tick < maxT
    /\ \A id \in DOMAIN stage : stage[id] \notin AwaitedByDriver
    /\ tick' = tick + 1
    /\ stage' = [id \in DOMAIN stage |-> IF id[1] = tick + 1 THEN "fetch" ELSE stage[id]]
    /\ UNCHANGED <<nSymbols, driver, closes, fetchFailed, fails, writerVars,
                   collMailbox, collVars, reqVars, envSent, procVars, sigVars>>

Tick == Dispatch(MaxTicks(nSymbols))

\* The first tick alone.
TickOnce == Dispatch(1)

\* ------------------------------------------------------------ fetch actor

\* UniversalActor::handle_quote_requests_msg: fetch every symbol of the chunk (a
\* failed fetch gives an empty series), spawn the statistics actor and send it the
\* SymbolsClosesMsg.  The map symbols_closes iterates in an order of its own: the
\* list order or its reverse here.  At most limit fetches fail over the run.
Fetch(id, limit) ==
    /\ stage[id] = "fetch"
    /\ \E failed \in SUBSET Range(ChunkSymbols(nSymbols, id[2])), rev \in BOOLEAN :
        /\ fails + Cardinality(failed) <= limit
        /\ fails' = fails + Cardinality(failed)
        /\ fetchFailed' = [fetchFailed EXCEPT ![id] = failed]
        /\ closes' = [closes EXCEPT ![id] =
               LET ok == Succeeded(ChunkSymbols(nSymbols, id[2]), failed)
               IN  IF rev THEN Reverse(ok) ELSE ok]
    /\ stage' = [stage EXCEPT ![id] = "proc"]
    /\ UNCHANGED <<nSymbols, driver, tick, writerVars, collMailbox, collVars,
                   reqVars, envSent, procVars, sigVars>>

FetchChunk(id) == Fetch(id, MaxFails)

\* The same with any subset of a chunk failing.
FetchChunkAnySubset(id) == Fetch(id, MaxChunkFails)

\* The same with every fetch giving a non-empty series.
FetchChunkAllOk(id) == Fetch(id, 0)

\* The same for symbols the data source has no quotes for, such as the empty
\* symbol: every fetch of the chunk gives an error or no quotes, and with it an
\* empty series.
FetchChunkNoData(id) ==
    /\ stage[id] = "fetch"
    /\ fetchFailed' = [fetchFailed EXCEPT ![id] = Range(ChunkSymbols(nSymbols, id[2]))]
    /\ closes' = [closes EXCEPT ![id] =
           Succeeded(ChunkSymbols(nSymbols, id[2]), Range(ChunkSymbols(nSymbols, id[2])))]
    /\ stage' = [stage EXCEPT ![id] = "proc"]
    /\ UNCHANGED <<nSymbols, driver, tick, fails, writerVars, collMailbox, collVars,
                   reqVars, envSent, procVars, sigVars>>

\* UniversalActor::handle, the QuoteRequestsMsg arm, when
\* yahoo::YahooConnector::new() fails: handle_quote_requests_msg returns the error
\* through `?` before any symbol is fetched and any message is sent, and
\* `.expect(..)` on that result panics: the fetch actor's task ends and the message
\* with its writer handle is dropped.
FetchConnectorFails(id) ==
    /\ stage[id] = "fetch"
    /\ stage' = [stage EXCEPT ![id] = "panicked"]
    /\ UNCHANGED <<nSymbols, driver, tick, closes, fetchFailed, fails, writerVars,
                   collMailbox, collVars, reqVars, envSent, procVars, sigVars>>

\* ------------------------------------------------------------ statistics actor

\* UniversalActor::handle_symbols_closes_msg, up to
\* writer_handle.send(..).await.expect(..): the rows are computed and the message
\* is accepted by the writer's mailbox; on Err the actor's task panics.
ProcSendWriter(id) ==
    /\ stage[id] = "proc"
    /\ SendReady(writerMailbox, writerDead)
    /\ LET r == send(writerMailbox, writerDead, RowsMsg(id[1], closes[id]))
       IN  /\ writerMailbox' = r.mailbox
           /\ writerEnq' = IF r.ok THEN Append(writerEnq, id) ELSE writerEnq
           /\ stage' = [stage EXCEPT ![id] = AfterWriterSend(r.ok)]
    /\ UNCHANGED <<nSymbols, driver, tick, closes, fetchFailed, fails, writerActors,
                   fileCreates, writerStarted, writerDead, writerStops,
                   writerHandled, file,
                   collMailbox, collVars, reqVars, envSent, procVars, sigVars>>

\* ... and collection_handle.send(..).await.expect(..) of the same message.
ProcSendCollector(id) ==
    /\ stage[id] = "toColl"
    /\ SendReady(collMailbox, collDead)
    /\ LET r == send(collMailbox, collDead,
                     [type |-> "chunk", msg |-> RowsMsg(id[1], closes[id])])
       IN  /\ collMailbox' = r.mailbox
           /\ stage' = [stage EXCEPT ![id] = AfterCollectorSend(r.ok)]
    /\ UNCHANGED <<nSymbols, driver, tick, closes, fetchFailed, fails, writerVars,
                   collVars, reqVars, envSent, procVars, sigVars>>

\* ------------------------------------------------------------ writer actor

\* WriterActor::start of a spawned actor: create/truncate the file and write the
\* header.
WriterStart ==
    /\ fileCreates < writerActors
    /\ ~writerDead
    /\ fileCreates' = fileCreates + 1
    /\ writerStarted' = TRUE
    /\ file' = <<CSV_HEADER>>
    /\ UNCHANGED <<nSymbols, driver, pipeVars, writerActors, writerDead, writerStops,
                   writerMailbox,
                   writerEnq, writerHandled, collMailbox, collVars, reqVars, envSent, procVars, sigVars>>

\* WriterActor::run and handle: receive the next message, append a line per row,
\* flush.
WriterHandle ==
    /\ WriterReceives(writerStarted, writerDead)
    /\ writerMailbox # <<>>
    /\ file' = AppendLines(file, LinesOf(Head(writerMailbox)))
    /\ writerMailbox' = Tail(writerMailbox)
    /\ writerHandled' = writerHandled + 1
    /\ UNCHANGED <<nSymbols, driver, pipeVars, writerActors, fileCreates, writerStarted,
                   writerDead, writerStops, writerEnq, collMailbox, collVars, reqVars, envSent, procVars, sigVars>>

\* The same when file.flush() fails: any prefix of the buffered lines has reached
\* the file, handle returns the error, run and start return it, the task ends and
\* the actor is dropped with its receiver and what the channel holds.
WriterHandleFlushFails ==
    /\ WriterReceives(writerStarted, writerDead)
    /\ writerMailbox # <<>>
    /\ \E k \in 0..Len(LinesOf(Head(writerMailbox))) :
           file' = AppendLines(file, SubSeq(LinesOf(Head(writerMailbox)), 1, k))
    /\ writerDead' = ~RunContinues(FALSE)
    /\ writerStops' = IF RunContinues(FALSE) THEN writerStops ELSE writerStops + 1
    /\ writerMailbox' = IF RunContinues(FALSE) THEN Tail(writerMailbox) ELSE <<>>
    /\ UNCHANGED <<nSymbols, driver, pipeVars, writerActors, fileCreates, writerStarted,
                   writerEnq, writerHandled, collMailbox, collVars, reqVars, envSent, procVars, sigVars>>

\* WriterActor::run when recv gives None: the loop ends, run and start return Ok,
\* the task ends and the drop of the actor calls stop, which flushes the writer.
WriterStop ==
    /\ WriterReceives(writerStarted, writerDead)
    /\ RecvNone(writerMailbox, WriterHandles(driver, stage))
    /\ writerDead' = TRUE
    /\ writerStops' = writerStops + 1
    /\ UNCHANGED <<nSymbols, driver, pipeVars, writerActors, fileCreates, writerStarted,
                   writerMailbox, writerEnq, writerHandled, file, collMailbox,
                   collVars, reqVars, envSent, procVars, sigVars>>

\* ------------------------------------------------------------ shutdown

\* SIGINT is delivered to the process while the driver waits in select!.
Sigint ==
    /\ driver = "loop"
    /\ sigint = "none"
    /\ sigint' = "pending"
    /\ UNCHANGED <<nSymbols, driver, main, pipeVars, writerVars, collMailbox, collVars,
                   reqVars, envSent, sigVars>>

\* main_loop, the tokio::signal::ctrl_c() arm of select!: break Ok(()).  main_loop
\* returns and its writer handle is dropped.
DriverCtrlC ==
    /\ driver = "loop"
    /\ sigint = "pending"
    /\ sigint' = "observed"
    /\ driver' = AfterCtrlC
    /\ UNCHANGED <<nSymbols, main, pipeVars, writerVars, collMailbox, collVars,
                   reqVars, envSent, sigVars>>

\* ------------------------------------------------------------ collection actor

\* CollectionActor::run and handle, a PerformanceIndicatorsChunk message.
CollectorHandleChunk ==
    /\ ~collDead
    /\ collMailbox # <<>>
    /\ Head(collMailbox).type = "chunk"
    /\ LET st == handle_perf_ind_chunk([buffer |-> buffer, batch |-> batch, cnt |-> cnt],
                                       Head(collMailbox).msg.rows)
       IN  /\ buffer' = st.buffer
           /\ batch' = st.batch
           /\ cnt' = st.cnt
    /\ collMailbox' = Tail(collMailbox)
    /\ UNCHANGED <<nSymbols, driver, pipeVars, writerVars, collDead, reqVars, envSent, procVars, sigVars>>

\* CollectionActor::run and handle, a TailRequest message: the response goes into
\* the request's reply channel; sender.send(response).await.unwrap() panics when
\* the caller has dropped the receiver, which ends the actor's task and drops its
\* receiver with what the channel holds.
CollectorHandleTail ==
    /\ ~collDead
    /\ collMailbox # <<>>
    /\ Head(collMailbox).type = "tail"
    /\ LET m == Head(collMailbox)
           r == send(reply[m.sender], reqPc[m.sender].pc = "gone",
                     handle_tail_request(buffer, m.n))
       IN  /\ reply' = [reply EXCEPT ![m.sender] = r.mailbox]
           /\ collDead' = ~r.ok
           /\ collMailbox' = IF r.ok THEN Tail(collMailbox) ELSE <<>>
    /\ UNCHANGED <<nSymbols, driver, pipeVars, writerVars, buffer, batch, cnt,
                   reqPc, envSent, procVars, sigVars>>

\* ------------------------------------------------------------ tail requesters

\* Caller r can enter get_tail: it has no call under way, and no request of an
\* earlier call that it left is still in the collector's mailbox.
CallerFree(r) ==
    \/ reqPc[r].pc = "idle"
    \/ /\ reqPc[r].pc = "gone"
       /\ \A i \in 1..Len(collMailbox) :
              collMailbox[i].type = "tail" => collMailbox[i].sender # r

\* get_tail: clamp n, create the reply channel, send the TailRequest; the result of
\* the send is discarded.
GetTailSend(r, n) ==
    /\ CallerFree(r)
    /\ SendReady(collMailbox, collDead)
    /\ collMailbox' = send(collMailbox, collDead,
                           [type |-> "tail", sender |-> r, n |-> ClampN(n)]).mailbox
    /\ reqPc' = [reqPc EXCEPT ![r] = [pc |-> "waiting", n |-> n]]
    /\ UNCHANGED <<nSymbols, driver, pipeVars, writerVars, collVars, reply, envSent, procVars, sigVars>>

\* A CollectionActorMsg::TailRequest sent through the handle by another caller.
DirectTailSend(r, n) ==
    /\ CallerFree(r)
    /\ SendReady(collMailbox, collDead)
    /\ collMailbox' = send(collMailbox, collDead,
                           [type |-> "tail", sender |-> r, n |-> n]).mailbox
    /\ reqPc' = [reqPc EXCEPT ![r] = [pc |-> "waiting", n |-> n]]
    /\ UNCHANGED <<nSymbols, driver, pipeVars, writerVars, collVars, reply, envSent, procVars, sigVars>>

\* get_tail: receiver.recv().await returns the response, or None once the sender
\* half went away with the collection actor.
GetTailRecv(r) ==
    /\ reqPc[r].pc = "waiting"
    /\ RecvReturns(reply[r], collDead)
    /\ reply' = [reply EXCEPT ![r] = <<>>]
    /\ reqPc' = [reqPc EXCEPT ![r] = [pc |-> "idle", n |-> 0]]
    /\ UNCHANGED <<nSymbols, driver, pipeVars, writerVars, collMailbox, collVars, envSent, procVars, sigVars>>

\* get_tail: the caller goes away while the handler waits; the handler's future
\* is dropped and with it the receiver of the reply channel.
GetTailAbandon(r) ==
    /\ reqPc[r].pc = "waiting"
    /\ reply' = [reply EXCEPT ![r] = <<>>]
    /\ reqPc' = [reqPc EXCEPT ![r] = [pc |-> "gone", n |-> 0]]
    /\ UNCHANGED <<nSymbols, driver, pipeVars, writerVars, collMailbox, collVars, envSent, procVars, sigVars>>

\* ------------------------------------------------------------ specifications

Next ==
    \/ NewWriterHandle
    \/ Tick
    \/ \E id \in DOMAIN stage : FetchChunk(id)
    \/ \E id \in DOMAIN stage : ProcSendWriter(id)
    \/ \E id \in DOMAIN stage : ProcSendCollector(id)
    \/ WriterStart
    \/ WriterHandle
    \/ CollectorHandleChunk
    \/ CollectorHandleTail
    \/ \E r \in PipelineRequesters, n \in RequestSizes : GetTailSend(r, n)
    \/ \E r \in PipelineRequesters, n \in RequestSizes : DirectTailSend(r, n)
    \/ \E r \in PipelineRequesters : GetTailRecv(r)

\* The pipeline while no actor fails.
Spec == Init /\ [][Next]_vars

\* The chunk message number k of the producers of the collector specification: the
\* chunks of tick 1 in order, then those of tick 2, ..., every fetch successful.
EnvChunkMsg(n, k) ==
    LET t == ((k - 1) \div NumChunks(n)) + 1
        c == ((k - 1) % NumChunks(n)) + 1
    IN  RowsMsg(t, ChunkSymbols(n, c))

\* A statistics actor's collection_handle.send(..).await, its pipeline left out.
EnvSend(limit) ==
    /\ envSent < limit
    /\ SendReady(collMailbox, collDead)
    /\ collMailbox' = send(collMailbox, collDead,
           [type |-> "chunk", msg |-> EnvChunkMsg(nSymbols, envSent + 1)]).mailbox
    /\ envSent' = envSent + 1
    /\ UNCHANGED <<nSymbols, driver, pipeVars, writerVars, collVars, reqVars, procVars, sigVars>>

EnvSendChunk == EnvSend(MaxChunkMsgs)

\* The same for the few chunk messages of the get_tail specification.
EnvSendFewChunks == EnvSend(MaxTailChunks)

NextCollector ==
    \/ EnvSendChunk
    \/ CollectorHandleChunk
    \/ CollectorHandleTail
    \/ \E r \in Requesters, n \in RequestSizes : GetTailSend(r, n)
    \/ \E r \in Requesters, n \in RequestSizes : DirectTailSend(r, n)
    \/ \E r \in Requesters : GetTailRecv(r)

\* The collection actor under any sequence of chunk-arrival and tail-request messages.
SpecCollector == Init /\ [][NextCollector]_vars

NextChunk ==
    \/ NewWriterHandle
    \/ TickOnce
    \/ \E id \in DOMAIN stage : FetchChunkAnySubset(id)
    \/ \E id \in DOMAIN stage : ProcSendWriter(id)
    \/ \E id \in DOMAIN stage : ProcSendCollector(id)
    \/ WriterStart
    \/ WriterHandle
    \/ CollectorHandleChunk

\* The universes of at most two chunks.
InitChunk == Init /\ nSymbols <= 2 * CHUNK_SIZE

\* One tick of the pipeline with any subsets of failing symbols.
SpecChunk == InitChunk /\ [][NextChunk]_vars

NextFetch ==
    \/ NewWriterHandle
    \/ TickOnce
    \/ \E id \in DOMAIN stage : FetchChunkAnySubset(id)
    \/ \E id \in DOMAIN stage : FetchConnectorFails(id)
    \/ \E id \in DOMAIN stage : ProcSendWriter(id)
    \/ \E id \in DOMAIN stage : ProcSendCollector(id)
    \/ WriterStart
    \/ WriterHandle
    \/ CollectorHandleChunk

\* One tick of the pipeline with every failure of a fetch actor: any subset of its
\* symbols failing, or the construction of the connector.
SpecFetch == InitChunk /\ [][NextFetch]_vars

NextEmptyUniverse ==
    \/ NewWriterHandle
    \/ Tick
    \/ \E id \in DOMAIN stage : FetchChunkNoData(id)
    \/ \E id \in DOMAIN stage : ProcSendWriter(id)
    \/ \E id \in DOMAIN stage : ProcSendCollector(id)
    \/ WriterStart
    \/ WriterHandle
    \/ CollectorHandleChunk
    \/ CollectorHandleTail
    \/ \E r \in PipelineRequesters, n \in RequestSizes : GetTailSend(r, n)
    \/ \E r \in PipelineRequesters : GetTailRecv(r)

\* The run with --symbols "".
InitEmptyUniverse == Init /\ nSymbols = SymbolCount(0)

\* The pipeline for the empty symbol list.
SpecEmptyUniverse == InitEmptyUniverse /\ [][NextEmptyUniverse]_vars

NextTail ==
    \/ EnvSendFewChunks
    \/ CollectorHandleChunk
    \/ CollectorHandleTail
    \/ \E r \in Requesters, n \in RequestSizes : GetTailSend(r, n)
    \/ \E r \in Requesters : GetTailRecv(r)
    \/ \E r \in OtherCallers : GetTailAbandon(r)

\* The collection actor and the callers of get_tail, one of which may go away in
\* the middle of a call; the collector's task and the handler of the call that is
\* followed are scheduled again and again.
SpecTailFair ==
    /\ Init
    /\ [][NextTail]_vars
    /\ WF_vars(CollectorHandleChunk \/ CollectorHandleTail)
    /\ WF_vars(GetTailRecv(1))

NextFailures ==
    \/ NewWriterHandle
    \/ Tick
    \/ \E id \in DOMAIN stage : FetchChunkAllOk(id)
    \/ \E id \in DOMAIN stage : ProcSendWriter(id)
    \/ \E id \in DOMAIN stage : ProcSendCollector(id)
    \/ WriterStart
    \/ WriterHandle
    \/ WriterHandleFlushFails
    \/ CollectorHandleChunk
    \/ CollectorHandleTail
    \/ \E r \in PipelineRequesters, n \in RequestSizes : GetTailSend(r, n)
    \/ \E r \in PipelineRequesters : GetTailRecv(r)
    \/ \E r \in PipelineRequesters : GetTailAbandon(r)

\* The pipeline with its failures: a failing flush in the writer and a caller of
\* get_tail that goes away.
SpecFailures == Init /\ [][NextFailures]_vars

\* ------------------------------------------------------------ indicators

\* MinPrice {}.calculate(&series).await
CalcMin ==
    /\ signal' = [kind |-> "min", out |-> MinPrice_calculate(series)]
    /\ UNCHANGED <<nSymbols, driver, pipeVars, writerVars, collMailbox, collVars,
                   reqVars, envSent, procVars, series, window_size>>

\* MaxPrice {}.calculate(&series).await
CalcMax ==
    /\ signal' = [kind |-> "max", out |-> MaxPrice_calculate(series)]
    /\ UNCHANGED <<nSymbols, driver, pipeVars, writerVars, collMailbox, collVars,
                   reqVars, envSent, procVars, series, window_size>>

\* PriceDifference {}.calculate(&series).await
CalcDiff ==
    /\ signal' = [kind |-> "diff", out |-> PriceDifference_calculate(series)]
    /\ UNCHANGED <<nSymbols, driver, pipeVars, writerVars, collMailbox, collVars,
                   reqVars, envSent, procVars, series, window_size>>

\* WindowedSMA { window_size }.calculate(&series).await
CalcSMA ==
    /\ signal' = [kind |-> "sma", out |-> WindowedSMA_calculate(window_size, series)]
    /\ UNCHANGED <<nSymbols, driver, pipeVars, writerVars, collMailbox, collVars,
                   reqVars, envSent, procVars, series, window_size>>

\* handle_symbols_closes_msg, `if !closes.is_empty()`: the sma of the row that goes
\* to the writer and the collector.
CalcRowSma ==
    /\ series # <<>>
    /\ signal' = [kind |-> "row", out |-> [sma |-> RowSma(series)]]
    /\ UNCHANGED <<nSymbols, driver, pipeVars, writerVars, collMailbox, collVars,
                   reqVars, envSent, procVars, series, window_size>>

\* Any series of at most MaxLen prices and any window size up to MaxWindow.
InitSignals ==
    /\ InitActors
    /\ nSymbols = 1
    /\ signal = [kind |-> "none"]
    /\ series \in SeriesSet
    /\ window_size \in 0..MaxWindow

NextSignals ==
    \/ CalcMin
    \/ CalcMax
    \/ CalcDiff
    \/ CalcSMA
    \/ CalcRowSma

\* The indicators applied to every series and window size.
SpecSignals == InitSignals /\ [][NextSignals]_vars


\* main stays inside axum::serve(listener, app).await, which is given no shutdown
\* signal and does not return; the code after it (ctrl_c(), the sleep of
\* SHUTDOWN_INTERVAL_SECS, the return from main) is never reached, so no action
\* changes main.
NextShutdown ==
    \/ NewWriterHandle
    \/ Tick
    \/ Sigint
    \/ DriverCtrlC
    \/ \E id \in DOMAIN stage : FetchChunkAllOk(id)
    \/ \E id \in DOMAIN stage : ProcSendWriter(id)
    \/ \E id \in DOMAIN stage : ProcSendCollector(id)
    \/ WriterStart
    \/ WriterHandle
    \/ WriterStop
    \/ CollectorHandleChunk

\* The pipeline with the shutdown signal, no actor failing.
SpecShutdown == Init /\ [][NextShutdown]_vars

\* The same with every task of the runtime scheduled again and again.
SpecShutdownFair == SpecShutdown /\ WF_vars(NextShutdown)
\* ------------------------------------------------------------ properties

\* The ticks whose rows a batch holds.
TicksIn(b) == {b[i].data : i \in 1..Len(b)}

\* The tail responses in flight to their callers.
Responses == {reply[r][1] : r \in {q \in Requesters : reply[q] # <<>>}}

\* The chunk messages the collection actor has handled, in the collector specification.
ChunksHandled ==
    envSent - Cardinality({i \in 1..Len(collMailbox) : collMailbox[i].type = "chunk"})

\* The last n batches of buf, oldest first.
LastN(buf, n) == SubSeq(buf, Len(buf) - Min(n, Len(buf)) + 1, Len(buf))

\* C1: every batch of every tail response was built from all the chunks of each
\* cycle it holds rows of: each chunk of that tick has been sent to the collector
\* and its rows are in the batch.
C1_NoPartialBatchVisible ==
    \A resp \in Responses : \A i \in 1..Len(resp) : \A t \in TicksIn(resp[i]) :
        \A c \in 1..NumChunks(nSymbols) :
            /\ stage[<<t, c>>] = "done"
            /\ Range(RowsOf(t, closes[<<t, c>>])) \subseteq Range(resp[i])

\* C2: handling a chunk-arrival pushes a batch exactly when the arrivals counted
\* since the previous push reach ceil(symbol_count / CHUNK_SIZE).
C2_PushExactlyAtExpectedCount ==
    [][CollectorHandleChunk =>
         ((Len(buffer') = Len(buffer) + 1) <=> (cnt + 1 = NumChunks(nSymbols)))]_vars

\* C3: no batch returned by a tail-request holds fewer rows than the symbol
\* universe has symbols (one row per symbol).
C3_NoBatchBelowExpectedRowCount ==
    \A resp \in Responses : \A i \in 1..Len(resp) : Len(resp[i]) >= nSymbols

\* C4: every batch held in the ring consists of rows of exactly one tick.
C4_BatchOfOneCycle ==
    \A i \in 1..Len(buffer) : Cardinality(TicksIn(buffer[i])) <= 1

\* C5: a step of the collector that pushes a batch leaves the in-progress batch
\* empty and the chunk counter 0.
C5_ResetAfterPush ==
    [][(CollectorHandleChunk /\ Len(buffer') > Len(buffer)) =>
         (batch' = <<>> /\ cnt' = 0)]_vars

\* C6: the ring never holds more than TAIL_BUFFER_SIZE batches, and the batches
\* held are ordered by cycle.
C6_RingBounded ==
    /\ Len(buffer) <= TAIL_BUFFER_SIZE
    /\ \A i \in 1..Len(buffer) : \A j \in i..Len(buffer) :
           \A t \in TicksIn(buffer[i]) : \E u \in TicksIn(buffer[j]) : t <= u

\* C7: the response to a tail-request for n batches is the n most recently
\* completed batches, oldest first.
C7_TailIsMostRecent ==
    [][CollectorHandleTail =>
         LET m == Head(collMailbox)
         IN  reply'[m.sender] = <<LastN(buffer, m.n)>>]_vars

\* C8: no tail response holds more than TAIL_BUFFER_SIZE batches, whatever n was
\* requested and by whichever path.
C8_ResponseClamped ==
    \A resp \in Responses : Len(resp) <= TAIL_BUFFER_SIZE

\* C9: a tail response is empty unless the first cycle has completed (all of its
\* chunks have been handled), and it never holds more than n batches.
C9_EmptyUntilFirstCycle ==
    \A r \in Requesters : reply[r] # <<>> =>
        /\ (ChunksHandled < NumChunks(nSymbols) => reply[r][1] = <<>>)
        /\ Len(reply[r][1]) <= reqPc[r].n

\* The lines of the rows message of chunk pipeline id.
LinesOfId(id) == LinesOf(RowsMsg(id[1], closes[id]))

\* C10: the file is the header followed by the lines of the handled rows
\* messages, message by message, in the order the mailbox accepted them.
C10_FileInEnqueueOrder ==
    file = IF writerStarted
           THEN <<CSV_HEADER>> \o Concat([i \in 1..writerHandled |-> LinesOfId(writerEnq[i])])
           ELSE <<>>

\* C10 witness: two non-empty rows messages of one tick were handled, the chunk
\* dispatched later having been enqueued first.
C10_Witness ==
    /\ writerHandled >= 2
    /\ writerEnq[1][1] = writerEnq[2][1]
    /\ writerEnq[1][2] > writerEnq[2][2]
    /\ LinesOfId(writerEnq[1]) # <<>>
    /\ LinesOfId(writerEnq[2]) # <<>>


\* C11: the row lines of the output file are in cycle order: a row of tick j never
\* comes after a row of a later tick k.
C11_FileInCycleOrder ==
    \A i, j \in 2..Len(file) : i < j => file[i][3] <= file[j][3]

C13_SingleWriterActor ==
    /\ writerActors <= 1
    /\ fileCreates <= 1
    /\ (tick > 0 \/ writerEnq # <<>>) => writerActors = 1

\* Pipelines of two ticks have sent through clones of the one handle.
C13_Witness ==
    /\ writerActors = 1
    /\ fileCreates = 1
    /\ \E i, j \in 1..Len(writerEnq) : writerEnq[i][1] # writerEnq[j][1]

\* The rows are one per symbol of the chunk of pipeline id that did not fail, and
\* none for a failing symbol.
ExactlySucceeding(rows, id) ==
    LET ok == Range(ChunkSymbols(nSymbols, id[2])) \ fetchFailed[id]
    IN  /\ {rows[i].symbol : i \in 1..Len(rows)} = ok
        /\ Len(rows) = Cardinality(ok)

\* C14: the rows message a statistics actor sends to the writer and to the
\* collector holds exactly one row for each symbol of the chunk whose fetch
\* succeeded and no row for a symbol whose fetch failed.
C14_RowsForSucceedingOnly ==
    [][\A id \in DOMAIN stage :
          /\ ProcSendWriter(id) =>
                 ExactlySucceeding(writerMailbox'[Len(writerMailbox')].rows, id)
          /\ ProcSendCollector(id) =>
                 ExactlySucceeding(collMailbox'[Len(collMailbox')].msg.rows, id)]_vars

\* A chunk of which several symbols failed and others succeeded went to both sinks.
C14_Witness ==
    \E id \in DOMAIN stage :
        /\ stage[id] = "done"
        /\ Cardinality(fetchFailed[id]) >= 2
        /\ Len(closes[id]) >= 2

\* C15: the response to a tail request is the tail of the ring as it stands when
\* the request is dequeued: as many batches as requested or as the ring holds, the
\* newest one last, and the ring is left as it was.
C15_ResponseIsTailAtDequeue ==
    [][CollectorHandleTail =>
          LET m == Head(collMailbox)
              resp == reply'[m.sender][1]
          IN  /\ Len(resp) = Min(m.n, Len(buffer))
              /\ \A i \in 1..Len(resp) : resp[i] = buffer[Len(buffer) - Len(resp) + i]
              /\ UNCHANGED <<buffer, batch, cnt>>]_vars

\* The pipelines whose statistics actor has got its message into the collector's
\* mailbox.
SentToCollector == {id \in DOMAIN stage : stage[id] = "done"}

\* C16: each mailbox holds at most ACTOR_CHANNEL_CAPACITY messages, and no message
\* is dropped or reordered: the writer's mailbox holds the accepted messages not
\* handled yet in the order of acceptance, every pipeline past its send to the
\* writer has its message accepted exactly once, and every message sent to the
\* collector is in its mailbox or counted by the actor.
C16_MailboxBounded ==
    /\ Len(writerMailbox) <= ACTOR_CHANNEL_CAPACITY
    /\ Len(collMailbox) <= ACTOR_CHANNEL_CAPACITY
    /\ Len(writerEnq) = writerHandled + Len(writerMailbox)
    /\ \A i \in 1..Len(writerMailbox) :
           writerMailbox[i] = RowsMsg(writerEnq[writerHandled + i][1],
                                      closes[writerEnq[writerHandled + i]])
    /\ \A id \in DOMAIN stage :
           Cardinality({i \in 1..Len(writerEnq) : writerEnq[i] = id})
               = IF stage[id] \in {"toColl", "done"} THEN 1 ELSE 0
    /\ Cardinality(SentToCollector)
           = Len(buffer) * CNT_PER_BATCH + cnt
             + Cardinality({i \in 1..Len(collMailbox) : collMailbox[i].type = "chunk"})

\* Both mailboxes are full with a sender waiting at each, after the writer has
\* already dequeued a message.
C16_Witness ==
    /\ Len(writerMailbox) = ACTOR_CHANNEL_CAPACITY
    /\ Len(collMailbox) = ACTOR_CHANNEL_CAPACITY
    /\ writerHandled >= 1
    /\ \E id \in DOMAIN stage : stage[id] = "proc"
    /\ \E id \in DOMAIN stage : stage[id] = "toColl"

\* C17: a send through the handle of an actor whose task has ended completes with
\* an error, puts nothing into the mailbox, and ends neither the driver nor an
\* actor other than its caller.
C17_ClosedSendReturnsError ==
    [][/\ \A id \in DOMAIN stage :
              (writerDead /\ stage[id] = "proc") =>
                  /\ ENABLED ProcSendWriter(id)
                  /\ ProcSendWriter(id) =>
                         /\ ~send(writerMailbox, writerDead,
                                  RowsMsg(id[1], closes[id])).ok
                         /\ UNCHANGED <<driver, writerVars, collMailbox, collVars, reqVars>>
                         /\ \A o \in DOMAIN stage \ {id} : stage'[o] = stage[o]
       /\ \A id \in DOMAIN stage :
              (collDead /\ stage[id] = "toColl") =>
                  /\ ENABLED ProcSendCollector(id)
                  /\ ProcSendCollector(id) =>
                         /\ UNCHANGED <<driver, writerVars, collMailbox, collVars, reqVars>>
                         /\ \A o \in DOMAIN stage \ {id} : stage'[o] = stage[o]
       /\ \A r \in Requesters :
              (collDead /\ CallerFree(r)) =>
                  /\ ENABLED GetTailSend(r, 1)
                  /\ GetTailSend(r, 1) =>
                         UNCHANGED <<driver, pipeVars, writerVars, collMailbox, collVars>>
      ]_vars

\* A statistics actor has sent to the ended writer, and get_tail to the ended
\* collection actor, and the driver has gone on to dispatch another tick.
C17_Witness ==
    /\ writerDead
    /\ collDead
    /\ \E id \in DOMAIN stage : stage[id] = "panicked" /\ tick > id[1]
    /\ \E r \in Requesters : reqPc[r].pc = "waiting"

\* C18: a statistics actor whose send to the writer fails because the writer's
\* mailbox is closed goes on to send its rows message to the collector.
C18_ProducerSurvivesDeadWriter ==
    [][\A id \in DOMAIN stage :
          (writerDead /\ ProcSendWriter(id)) => stage'[id] = "toColl"]_vars

\* C19: handling a tail request whose reply channel is closed leaves the collection
\* actor running, with its ring, batch and counter as they were.
C19_CollectorSurvivesClosedReply ==
    [][(CollectorHandleTail /\ reqPc[Head(collMailbox).sender].pc = "gone") =>
          (~collDead' /\ UNCHANGED <<buffer, batch, cnt>>)]_vars

\* C20: a flush failure ends the writer: its mailbox is closed and empty from then
\* on, it handles no further message and writes no further line, and every later
\* send through a writer handle fails.
C20_FlushFailureIsFatal ==
    [][/\ WriterHandleFlushFails => (writerDead' /\ writerMailbox' = <<>>)
       /\ writerDead =>
              /\ writerDead'
              /\ writerMailbox' = <<>>
              /\ UNCHANGED <<writerHandled, writerEnq, file>>
              /\ \A id \in DOMAIN stage :
                     ProcSendWriter(id) => stage'[id] = "panicked"
      ]_vars

\* The writer has handled a message, a later flush has failed, and a send after
\* that has failed.
C20_Witness ==
    /\ writerDead
    /\ writerHandled >= 1
    /\ \E id \in DOMAIN stage : stage[id] = "panicked" /\ ~collDead

\* The series t holds the elements of the series s in some order.
IsPermutation(s, t) ==
    /\ Len(s) = Len(t)
    /\ \A p \in Prices :
           Cardinality({i \in 1..Len(s) : s[i] = p}) = Cardinality({i \in 1..Len(t) : t[i] = p})

\* The sum of the elements i..j of the series s.
RECURSIVE SumFromTo(_, _, _)
SumFromTo(s, i, j) == IF i > j THEN 0 ELSE s[i] + SumFromTo(s, i + 1, j)

\* C27: WindowedSMA.calculate with window size w on a series of length L gives None
\* when the series is empty or w <= 1, and otherwise the max(0, L - w + 1) averages
\* of the consecutive windows of length w in order; a window larger than the series
\* gives the empty list, not None.
C27_WindowedSMA ==
    signal.kind = "sma" =>
        LET L == Len(series)
            w == window_size
            n == IF L - w + 1 > 0 THEN L - w + 1 ELSE 0
        IN  IF L = 0 \/ w <= 1
            THEN signal.out = None
            ELSE /\ signal.out.some
                 /\ Len(signal.out.val) = n
                 /\ \A i \in 1..n :
                        signal.out.val[i] = Div(SumFromTo(series, i, i + w - 1), w)
                 /\ w > L => signal.out = Some(<<>>)

\* A moving average of several windows has been calculated.
C27_Witness ==
    /\ signal.kind = "sma"
    /\ window_size = 2
    /\ Len(series) = 3
    /\ series[1] # series[3]
    /\ Len(signal.out.val) = 2

\* C28: PriceDifference.calculate gives None for the empty series and otherwise
\* (last - first, (last - first) / d) with d the first element, or 1 when the first
\* element is exactly zero; a one-element series gives (0, 0).
C28_PriceDifference ==
    signal.kind = "diff" =>
        IF series = <<>>
        THEN signal.out = None
        ELSE LET first == series[1]
                 last == series[Len(series)]
                 d == IF first = 0 THEN 1 ELSE first
             IN  /\ signal.out.some
                 /\ signal.out.val = <<last - first, Div(last - first, d)>>
                 /\ signal.out.val[2].den # 0
                 /\ Len(series) = 1 =>
                        (signal.out.val[1] = 0 /\ signal.out.val[2].num = 0)

\* The difference of a series that starts at exactly zero has been calculated.
C28_Witness ==
    /\ signal.kind = "diff"
    /\ Len(series) >= 2
    /\ series[1] = 0
    /\ series[Len(series)] # 0
    /\ signal.out.some

\* C29: MinPrice.calculate and MaxPrice.calculate give None for the empty series
\* and otherwise the smallest, respectively the largest, element of the series,
\* whatever the order of its elements.
C29_MinMaxPrice ==
    /\ signal.kind = "min" =>
           IF series = <<>>
           THEN signal.out = None
           ELSE /\ signal.out.some
                /\ signal.out.val \in Range(series)
                /\ \A i \in 1..Len(series) : signal.out.val <= series[i]
                /\ \A t \in SeriesSet :
                       IsPermutation(series, t) => MinPrice_calculate(t) = signal.out
    /\ signal.kind = "max" =>
           IF series = <<>>
           THEN signal.out = None
           ELSE /\ signal.out.some
                /\ signal.out.val \in Range(series)
                /\ \A i \in 1..Len(series) : signal.out.val >= series[i]
                /\ \A t \in SeriesSet :
                       IsPermutation(series, t) => MaxPrice_calculate(t) = signal.out

\* The minimum of an unsorted series of positive prices has been calculated.
C29_Witness ==
    /\ signal.kind = "min"
    /\ Len(series) = 3
    /\ series[1] > series[2]
    /\ series[2] < series[3]
    /\ series[2] > 0
    /\ signal.out.some

WriterStoppedInOrder ==
    /\ writerStops <= 1
    /\ ~writerDead => writerStops = 0
    /\ writerDead =>
           /\ driver = "stopped"
           /\ \A id \in DOMAIN stage : stage[id] \in {"idle", "done"}
           /\ writerMailbox = <<>>
           /\ writerHandled = Len(writerEnq)
           /\ \A id \in DOMAIN stage : stage[id] = "done" =>
                  \E i \in 1..Len(writerEnq) : writerEnq[i] = id
           /\ file = <<CSV_HEADER>> \o Concat([i \in 1..Len(writerEnq) |-> LinesOfId(writerEnq[i])])
           /\ writerStops = 1

C22_DispatchWaitsForNoPipeline ==
    [][/\ (driver = "loop" /\ tick < MaxTicks(nSymbols)) => ENABLED Tick
       /\ Tick =>
              /\ driver' = "loop"
              /\ \A id \in DOMAIN stage :
                     stage'[id] = IF id[1] = tick' THEN "fetch" ELSE stage[id]
              /\ Cardinality({id \in DOMAIN stage : stage[id] = "idle" /\ stage'[id] = "fetch"})
                     = NumChunks(nSymbols)
              /\ UNCHANGED <<writerVars, collMailbox, collVars, closes>>
      ]_vars

\* A second and a third tick were dispatched while the fetch of the first had not
\* finished and nothing had been written or collected.
C22_Witness ==
    /\ tick = 3
    /\ stage[<<1, 1>>] = "fetch"
    /\ stage[<<2, 1>>] = "fetch"
    /\ writerEnq = <<>>

\* The pipelines of tick t that have been started.
Started(t) == {id \in DOMAIN stage : id[1] = t /\ stage[id] # "idle"}

\* C23: once the driver has observed the shutdown signal no further tick is
\* dispatched and no pipeline is started, and the driver has left its loop for
\* good; and at every moment each tick has either all of its chunks handed to fetch
\* actors or none.
C23_NoTickAfterSignal ==
    /\ [][sigint = "observed" =>
             /\ tick' = tick
             /\ \A id \in DOMAIN stage : stage[id] = "idle" => stage'[id] = "idle"
             /\ driver' = "stopped"
             /\ sigint' = "observed"]_vars
    /\ [](\A t \in 1..MaxTicks(nSymbols) :
              Cardinality(Started(t)) \in {0, NumChunks(nSymbols)})

\* The signal was observed after the first tick of a universe of several chunks,
\* with a tick still undispatched, and the pipelines of the first tick have gone on.
C23_Witness ==
    /\ sigint = "observed"
    /\ tick = 1
    /\ tick < MaxTicks(nSymbols)
    /\ \E id \in DOMAIN stage : stage[id] = "done"

\* C24 (last part): after the shutdown signal the process does eventually exit.
C24_ProcessExits ==
    (sigint = "pending") ~> (main = "exited")

\* C25: a statistics actor that sends to the writer gets its rows message into the
\* writer's mailbox and goes on to the collector, and its send to the collector
\* puts the message with the same label and rows into the collector's mailbox,
\* after which it has finished.
C25_OneMessageToEachSink ==
    [][\A id \in DOMAIN stage :
          /\ ProcSendWriter(id) =>
                 /\ writerMailbox' = Append(writerMailbox, RowsMsg(id[1], closes[id]))
                 /\ stage'[id] = "toColl"
          /\ ProcSendCollector(id) =>
                 /\ collMailbox' = Append(collMailbox,
                        [type |-> "chunk", msg |-> RowsMsg(id[1], closes[id])])
                 /\ stage'[id] = "done"]_vars

\* C30: whenever a fetch actor has handled its QuoteRequestsMsg it has passed a
\* SymbolsClosesMsg to a statistics actor, with an entry for every symbol of the
\* chunk: a non-empty series for the fetched ones, an empty one for the others.
C30_FetchAlwaysForwards ==
    [][\A id \in DOMAIN stage :
          (stage[id] = "fetch" /\ stage'[id] # "fetch") =>
              /\ stage'[id] = "proc"
              /\ Range(closes'[id]) \cup fetchFailed'[id]
                     = Range(ChunkSymbols(nSymbols, id[2]))]_vars

\* A value of a row field that is a number.
IsNumber(v) == DOMAIN v = {"num", "den"}

\* C31: the windowed average of the row of a series shorter than WINDOW_SIZE is
\* omitted: it is not a number.
C31_SmaOmittedWhenShort ==
    (signal.kind = "row" /\ Len(series) < WINDOW_SIZE) => ~IsNumber(signal.out.sma)

WriterCanStep == ENABLED WriterStart \/ ENABLED WriterHandle

\* The collection actor's task can handle the message at the head of its mailbox.
CollectorCanStep == ENABLED CollectorHandleChunk \/ ENABLED CollectorHandleTail

\* C33: no task is suspended on a send or receive that nothing can complete: a
\* statistics actor waiting to send can send, or the consumer whose mailbox is full
\* can take a message; a get_tail caller waiting for its reply has the reply or the
\* end of the collector to receive, or its request is in the mailbox of a collector
\* that can handle it; and a message in a mailbox can be taken by its actor.
C33_NoDeadlock ==
    /\ \A id \in DOMAIN stage :
           /\ stage[id] = "proc" => (ENABLED ProcSendWriter(id) \/ WriterCanStep)
           /\ stage[id] = "toColl" => (ENABLED ProcSendCollector(id) \/ CollectorCanStep)
    /\ \A r \in Requesters :
           reqPc[r].pc = "waiting" =>
               \/ ENABLED GetTailRecv(r)
               \/ /\ \E i \in 1..Len(collMailbox) :
                         collMailbox[i].type = "tail" /\ collMailbox[i].sender = r
                  /\ CollectorCanStep
    /\ writerMailbox # <<>> => WriterCanStep
    /\ collMailbox # <<>> => CollectorCanStep

\* Both mailboxes are full, a statistics actor waits at each of them, and a
\* get_tail caller waits for the reply to the request in the collector's mailbox.
C33_Witness ==
    /\ Len(writerMailbox) = ACTOR_CHANNEL_CAPACITY
    /\ Len(collMailbox) = ACTOR_CHANNEL_CAPACITY
    /\ Head(collMailbox).type = "tail"
    /\ \E id \in DOMAIN stage : stage[id] = "proc"
    /\ \E id \in DOMAIN stage : stage[id] = "toColl"
    /\ \E r \in Requesters : reqPc[r].pc = "waiting"

AcceptedByWriter(row) ==
    \E j \in 1..Len(writerEnq) :
        LET rows == RowsMsg(writerEnq[j][1], closes[writerEnq[j]]).rows
        IN  \E k \in 1..Len(rows) : rows[k] = row

\* Every row of the sequence of rows is of a message accepted by the writer.
AllAcceptedByWriter(rows) == \A k \in 1..Len(rows) : AcceptedByWriter(rows[k])

\* C35: the rows message of a chunk is in the collector's mailbox, or was handled
\* by the collector, only after the writer's mailbox has accepted it; so every row
\* held by the collector or found in a tail response is a row of a message that
\* was enqueued to the writer.
C35_WriterBeforeCollector ==
    /\ \A id \in DOMAIN stage :
           stage[id] = "done" => \E j \in 1..Len(writerEnq) : writerEnq[j] = id
    /\ \A i \in 1..Len(collMailbox) :
           collMailbox[i].type = "chunk" => AllAcceptedByWriter(collMailbox[i].msg.rows)
    /\ AllAcceptedByWriter(batch)
    /\ \A i \in 1..Len(buffer) : AllAcceptedByWriter(buffer[i])
    /\ \A resp \in Responses : \A i \in 1..Len(resp) : AllAcceptedByWriter(resp[i])

\* A tail response holds rows of a message that is still in the writer's mailbox.
C35_Witness ==
    /\ writerMailbox # <<>>
    /\ ~writerDead
    /\ \E resp \in Responses : \E i \in 1..Len(resp) : \E k \in 1..Len(resp[i]) :
           \E m \in 1..Len(writerMailbox[1].rows) : resp[i][k] = writerMailbox[1].rows[m]

\* C36: a batch in the ring keeps its rows: no step changes a batch the ring holds,
\* and each batch of a tail response in flight has the rows of the batch at its
\* place in the ring, so that two responses holding a batch hold the same rows.
C36_BatchImmutable ==
    [][/\ \A i \in 1..Len(buffer) : i <= Len(buffer') /\ buffer'[i] = buffer[i]
       /\ \A r \in Requesters : \A i \in 1..Len(reply'[r]) :
              \A k \in 1..Len(reply'[r][i]) :
                  k <= Len(buffer') /\ reply'[r][i][k] = buffer'[k]]_vars

\* Two responses that hold the first batch are in flight, the second taken after
\* later chunks have arrived and a further batch was pushed.
C36_Witness ==
    /\ Len(buffer) >= 2
    /\ Len(batch) > Len(buffer[1])
    /\ \A r \in Requesters : reply[r] # <<>> /\ reply[r][1] # <<>>
    /\ Len(reply[1][1]) < Len(reply[2][1])

\* C37: handling a tail request leaves the ring, the batch in progress and the
\* chunk counter as they were and the collection actor able to handle the chunk
\* messages that follow, so that the batch of the cycle completes as it would have
\* without the request.
C37_TailRequestFrame ==
    [][CollectorHandleTail =>
          /\ UNCHANGED <<buffer, batch, cnt>>
          /\ ~collDead'
          /\ collMailbox' = Tail(collMailbox)]_vars

\* The sequences s and t hold the same elements the same number of times.
SameMultiset(s, t) ==
    /\ Len(s) = Len(t)
    /\ \A x \in Range(s) \cup Range(t) :
           Cardinality({i \in 1..Len(s) : s[i] = x}) = Cardinality({i \in 1..Len(t) : t[i] = x})

\* The collection actor's state after it has handled, from its initial state, the
\* rows messages of the chunks 1..k of tick t in the order of dispatch.
RECURSIVE CollectedInDispatchOrder(_, _)
CollectedInDispatchOrder(t, k) ==
    IF k = 0
    THEN [buffer |-> <<>>, batch |-> <<>>, cnt |-> 0]
    ELSE handle_perf_ind_chunk(CollectedInDispatchOrder(t, k - 1),
                               RowsMsg(t, closes[<<t, k>>]).rows)

\* C38: when exactly the chunks of the first cycle have reached the collector, in
\* whatever order, the batches it has completed hold the same multisets of rows as
\* they do when the chunks arrive in the order of dispatch.
C38_BatchIndependentOfArrivalOrder ==
    (/\ tick >= 1
     /\ \A id \in DOMAIN stage : stage[id] = IF id[1] = 1 THEN "done" ELSE "idle"
     /\ collMailbox = <<>>)
    => LET inOrder == CollectedInDispatchOrder(1, NumChunks(nSymbols))
       IN  /\ Len(buffer) = Len(inOrder.buffer)
           /\ \A i \in 1..Len(buffer) : SameMultiset(buffer[i], inOrder.buffer[i])

AllChunkIds == (1..MaxDispatched) \X (1..MaxDispatched)

====
